---- MODULE Spec2Model ----
(***************************************************************************)
(* A model of viadot's Hubspot extraction task (viadot/tasks/hubspot.py):  *)
(* the filter normaliser format_filters, the cursor detector               *)
(* get_offset_from_response and the page loop of HubspotToDF.run; and of   *)
(* the Mindful source (viadot/sources/mindful.py): the time window of the  *)
(* constructor, the two list requests and response_to_file.                *)
(***************************************************************************)
EXTENDS Integers, Sequences, FiniteSets, TLC

\* ------------------------------------------------------------------ bounds

\* Largest number of records in one ordinary page of the API.
MaxPageLen == 2
\* Largest small row limit (nrows) a caller passes.
MaxRows == 3
\* The fetch counter counts up to this many calls of to_json and then stays.
MaxFetches == 4
\* The history of page sizes keeps the sizes of this many first pages.
MaxSizesKept == 3
\* Largest number of leaf values in a filter tree given to format_filters.
MaxLeaves == 3
\* The datetimes a caller passes to Mindful are the days 1..MaxDay.
MaxDay == 2
\* The date_interval a caller passes to Mindful is in -1..MaxInterval.
MaxInterval == 2

\* ------------------------------------------------------------ Python values

\* A Python scalar as it occurs in nrows, cursors and tokens: None, an int or a str.
PyNone == [t |-> "None", n |-> 0, s |-> ""]
PyInt(n) == [t |-> "int", n |-> n, s |-> ""]
PyStr(s) == [t |-> "str", n |-> 0, s |-> s]
\* A datetime, as the number n of days from a day 0 to it.
PyDatetime(n) == [t |-> "datetime", n |-> n, s |-> ""]

\* bool(v), as `while offset_value and ...` evaluates it.
Truthy(v) ==
    CASE v.t = "None" -> FALSE
      [] v.t = "int" -> v.n # 0
      [] v.t = "str" -> v.s # ""

Min(a, b) == IF a <= b THEN a ELSE b
Max(a, b) == IF a >= b THEN a ELSE b

\* PySlice with the limit tested for truth first (`df[:n] if n else df`).
PySliceFalsyIsAll(s, n) ==
    IF n.t = "None" \/ n.n = 0 THEN s
    ELSE IF n.n > 0 THEN SubSeq(s, 1, Min(n.n, Len(s)))
    ELSE SubSeq(s, 1, Max(Len(s) + n.n, 0))

\* s[:n] for a list s: everything for None, the first n for n >= 0, all but the
\* last -n for n < 0.
PySlice(s, n) ==
    IF n.t = "None" THEN s
    ELSE IF n.n >= 0 THEN SubSeq(s, 1, Min(n.n, Len(s)))
    ELSE SubSeq(s, 1, Max(Len(s) + n.n, 0))

\* ------------------------------------------------------------ filter trees

\* A str is the sequence of its characters, so that parsing is done on the text.
Digits == {"0", "1", "2", "3", "4", "5", "6", "7", "8", "9"}

DigitVal(c) ==
    CASE c = "0" -> 0 [] c = "1" -> 1 [] c = "2" -> 2 [] c = "3" -> 3
      [] c = "4" -> 4 [] c = "5" -> 5 [] c = "6" -> 6 [] c = "7" -> 7
      [] c = "8" -> 8 [] c = "9" -> 9

\* int(cs) for a sequence of digit characters.
RECURSIVE ToInt(_)
ToInt(cs) ==
    IF cs = <<>> THEN 0
    ELSE 10 * ToInt(SubSeq(cs, 1, Len(cs) - 1)) + DigitVal(cs[Len(cs)])

AllDigits(cs) == \A i \in 1..Len(cs) : cs[i] \in Digits

\* A leaf value of a predicate: a str (s), an int or a bool (n; a bool is 0 or 1),
\* or a nested collection of predicates (sub).
LeafStr(cs) == [t |-> "str", s |-> cs, n |-> 0, sub |-> <<>>]
LeafInt(n) == [t |-> "int", s |-> <<>>, n |-> n, sub |-> <<>>]
LeafBool(b) == [t |-> "bool", s |-> <<>>, n |-> IF b THEN 1 ELSE 0, sub |-> <<>>]
LeafList(ps) == [t |-> "list", s |-> <<>>, n |-> 0, sub |-> ps]

IsLeap(y) == y % 4 = 0 /\ (y % 100 # 0 \/ y % 400 = 0)

DaysInMonth(y, m) ==
    IF m = 2 THEN (IF IsLeap(y) THEN 29 ELSE 28)
    ELSE IF m \in {4, 6, 9, 11} THEN 30 ELSE 31

\* date(y, m, d) accepts exactly the dates of the proleptic Gregorian calendar.
ValidDate(y, m, d) ==
    /\ y >= 1 /\ y <= 9999
    /\ m >= 1 /\ m <= 12
    /\ d >= 1 /\ d <= DaysInMonth(y, m)

NoDate == [ok |-> FALSE, y |-> 0, m |-> 0, d |-> 0]

\* datetime.date.fromisoformat(v): TypeError for a value that is not a str,
\* ValueError for a str that is not "YYYY-MM-DD" or names no calendar date; both
\* are ok = FALSE here.
FromIsoformat(v) ==
    IF v.t # "str" THEN NoDate
    ELSE IF Len(v.s) # 10 THEN NoDate
    ELSE IF v.s[5] # "-" \/ v.s[8] # "-" THEN NoDate
    ELSE IF ~AllDigits(SubSeq(v.s, 1, 4) \o SubSeq(v.s, 6, 7) \o SubSeq(v.s, 9, 10))
         THEN NoDate
    ELSE LET y == ToInt(SubSeq(v.s, 1, 4))
             m == ToInt(SubSeq(v.s, 6, 7))
             d == ToInt(SubSeq(v.s, 9, 10))
         IN  IF ValidDate(y, m, d) THEN [ok |-> TRUE, y |-> y, m |-> m, d |-> d]
             ELSE NoDate

\* The positions of "-" in a str.
Dashes(cs) == {i \in 1..Len(cs) : cs[i] = "-"}

\* datetime.datetime.strptime(v, "%Y-%m-%d"): a four digit year, then a month and
\* a day of one or two digits each, separated by "-"; midnight of that date.
Strptime(v) ==
    IF v.t # "str" THEN NoDate
    ELSE IF Cardinality(Dashes(v.s)) # 2 THEN NoDate
    ELSE CHOOSE dt \in
             {LET ys == SubSeq(v.s, 1, i - 1)
                  ms == SubSeq(v.s, i + 1, j - 1)
                  ds == SubSeq(v.s, j + 1, Len(v.s))
              IN  IF /\ Len(ys) = 4 /\ Len(ms) \in {1, 2} /\ Len(ds) \in {1, 2}
                     /\ AllDigits(ys \o ms \o ds)
                     /\ ValidDate(ToInt(ys), ToInt(ms), ToInt(ds))
                  THEN [ok |-> TRUE, y |-> ToInt(ys), m |-> ToInt(ms), d |-> ToInt(ds)]
                  ELSE NoDate :
              i \in {a \in Dashes(v.s) : \A b \in Dashes(v.s) : a <= b},
              j \in {a \in Dashes(v.s) : \A b \in Dashes(v.s) : a >= b}} : TRUE

\* The days of the months before month m of year y.
RECURSIVE DaysBeforeMonth(_, _)
DaysBeforeMonth(y, m) ==
    IF m = 1 THEN 0 ELSE DaysBeforeMonth(y, m - 1) + DaysInMonth(y, m - 1)

\* The days from 0001-01-01 to the first day of year y.
DaysBeforeYear(y) ==
    (y - 1) * 365 + ((y - 1) \div 4) - ((y - 1) \div 100) + ((y - 1) \div 400)

\* The days from 1970-01-01 to the date (719163 is 1970-01-01's ordinal).
DaysSinceEpoch(y, m, d) == DaysBeforeYear(y) + DaysBeforeMonth(y, m) + d - 719163

\* datetime.timestamp() of a naive datetime at midnight: the datetime is read as
\* local time, so the result is the UTC midnight's seconds less the local UTC
\* offset (tz, in minutes east of UTC).
Timestamp(dt, tz) == DaysSinceEpoch(dt.y, dt.m, dt.d) * 86400 - tz * 60

\* date_to_unixtimestamp(date): int(timestamp(strptime(date, "%Y-%m-%d")) * 1000).
DateToUnixtimestamp(v, tz) ==
    CHOOSE r \in {IF dt.ok THEN [ok |-> TRUE, n |-> Timestamp(dt, tz) * 1000]
                   ELSE [ok |-> FALSE, n |-> 0] :
                   dt \in {Strptime(v)}} : TRUE

\* The keys of a predicate dict in the order the model iterates them.
FieldOrder == <<"value", "highValue">>
FieldNames == {FieldOrder[i] : i \in DOMAIN FieldOrder}

\* Python's == on leaves: a bool equals the int of the same number.
LeafEq(a, b) ==
    IF a.t \in {"int", "bool"} /\ b.t \in {"int", "bool"} THEN a.n = b.n
    ELSE a = b

\* Python's == on predicate dicts and on group dicts {"filters": [...]}.
PredEq(p, q) ==
    /\ DOMAIN p = DOMAIN q
    /\ \A k \in DOMAIN p : LeafEq(p[k], q[k])

GroupEq(g, h) ==
    /\ Len(g.filters) = Len(h.filters)
    /\ \A i \in 1..Len(g.filters) : PredEq(g.filters[i], h.filters[i])

\* Index with groups compared by their number of predicates only.
IndexByLength(filters, item) ==
    CHOOSE i \in 1..Len(filters) :
        /\ Len(filters[i].filters) = Len(item.filters)
        /\ \A j \in 1..(i - 1) : Len(filters[j].filters) # Len(item.filters)

\* filters.index(item): the index of the first group equal to item.
Index(filters, item) ==
    CHOOSE i \in 1..Len(filters) :
        /\ GroupEq(filters[i], item)
        /\ \A j \in 1..(i - 1) : ~GroupEq(filters[j], item)

\* The (group, predicate, key) triples in the order the three loops of
\* format_filters visit them.
RECURSIVE KeysOf(_, _)
KeysOf(p, i) ==
    IF i > Len(FieldOrder) THEN <<>>
    ELSE (IF FieldOrder[i] \in DOMAIN p THEN <<FieldOrder[i]>> ELSE <<>>)
         \o KeysOf(p, i + 1)

RECURSIVE PredPositions(_, _, _, _)
PredPositions(k, i, keys, j) ==
    IF j > Len(keys) THEN <<>>
    ELSE <<[item |-> k, iterator |-> i, subitem |-> keys[j]]>>
         \o PredPositions(k, i, keys, j + 1)

RECURSIVE GroupPositions(_, _, _)
GroupPositions(g, k, i) ==
    IF i > Len(g.filters) THEN <<>>
    ELSE PredPositions(k, i, KeysOf(g.filters[i], 1), 1) \o GroupPositions(g, k, i + 1)

RECURSIVE Positions(_, _)
Positions(filters, k) ==
    IF k > Len(filters) THEN <<>>
    ELSE GroupPositions(filters[k], k, 1) \o Positions(filters, k + 1)

\* FormatStep with the except branch emptying the leaf (`except: ... = ""`).
FormatStepBlanksFailures(filters, pos, tz) ==
    LET item == filters[pos.item]
        lookup == item.filters[pos.iterator][pos.subitem]
    IN  CHOOSE r \in
            {[filters EXCEPT
                 ![Index(filters, item)].filters[pos.iterator][pos.subitem] =
                     IF FromIsoformat(lookup).ok /\ date_after_format.ok
                     THEN LeafInt(date_after_format.n)
                     ELSE LeafStr(<<>>)] :
             date_after_format \in {DateToUnixtimestamp(lookup, tz)}} : TRUE

\* FormatStep also taking an int leaf for milliseconds and writing seconds.
FormatStepRescalesInts(filters, pos, tz) ==
    LET item == filters[pos.item]
        lookup == item.filters[pos.iterator][pos.subitem]
    IN  CHOOSE r \in
            {IF FromIsoformat(lookup).ok /\ date_after_format.ok
             THEN [filters EXCEPT
                      ![Index(filters, item)].filters[pos.iterator][pos.subitem] =
                          LeafInt(date_after_format.n)]
             ELSE IF lookup.t = "int"
             THEN [filters EXCEPT
                      ![Index(filters, item)].filters[pos.iterator][pos.subitem] =
                          LeafInt(lookup.n \div 1000)]
             ELSE filters :
             date_after_format \in {DateToUnixtimestamp(lookup, tz)}} : TRUE

\* The body of the innermost loop at one position: a leaf that parses as an ISO
\* date and converts is overwritten, in the list the caller passed, at the first
\* group equal to the current one; any exception leaves the list as it is.
FormatStep(filters, pos, tz) ==
    LET item == filters[pos.item]
        lookup == item.filters[pos.iterator][pos.subitem]
    IN  CHOOSE r \in
            {IF FromIsoformat(lookup).ok /\ date_after_format.ok
             THEN [filters EXCEPT
                      ![Index(filters, item)].filters[pos.iterator][pos.subitem] =
                          LeafInt(date_after_format.n)]
             ELSE filters :
             date_after_format \in {DateToUnixtimestamp(lookup, tz)}} : TRUE

RECURSIVE FormatLoop(_, _, _, _)
FormatLoop(filters, ps, i, tz) ==
    IF i > Len(ps) THEN filters
    ELSE FormatLoop(FormatStep(filters, ps[i], tz), ps, i + 1, tz)

\* format_filters(filters): arg is the list object the caller passed, as it is
\* after the call, ret the object returned, and same whether the two are one
\* object. The function works on the caller's list in place and returns it.
format_filters(filters, tz) ==
    CHOOSE r \in {[arg |-> formatted, ret |-> formatted, same |-> TRUE] :
                     formatted \in {FormatLoop(filters, Positions(filters, 1), 1, tz)}} :
        TRUE


\* ---------------------------------------------------------- filter inputs

\* The UTC offsets (minutes east of UTC) of the machines the task may run on.
UtcOffsets == {0, 60}

IsoDay2 == LeafStr(<<"1", "9", "7", "0", "-", "0", "1", "-", "0", "2">>)
IsoDay20 == LeafStr(<<"1", "9", "7", "0", "-", "0", "1", "-", "2", "0">>)
\* Shaped like a date, but February has no 30th.
NoSuchDay == LeafStr(<<"1", "9", "7", "0", "-", "0", "2", "-", "3", "0">>)
Word == LeafStr(<<"G", "T", "E">>)
\* What 1970-01-02 converts to on a machine at UTC.
Millis == LeafInt(86400000)
Flag == LeafBool(TRUE)
\* A nested collection: a list holding one predicate whose value is a date.
Nested == LeafList(<<[value |-> IsoDay2]>>)

DateLeaves == {IsoDay2, IsoDay20}
Leaves == DateLeaves \cup {NoSuchDay, Word, Millis, Flag, Nested}

\* The key lists of a predicate dict with k keys.
KeyLists(k) ==
    IF k = 1 THEN {<<"value">>, <<"highValue">>}
    ELSE IF k = 2 THEN {<<"value", "highValue">>}
    ELSE {}

\* The shapes of a group's predicate list holding n leaves in all: the key list
\* of each predicate.
RECURSIVE GroupShapes(_)
GroupShapes(n) ==
    IF n = 0 THEN {<<>>}
    ELSE UNION {{<<p>> \o r : p \in KeyLists(k), r \in GroupShapes(n - k)} :
                k \in 1..Min(n, 2)}

\* The shapes of a filter tree holding n leaves in all: the shape of each group.
RECURSIVE TreeShapes(_)
TreeShapes(n) ==
    IF n = 0 THEN {<<>>}
    ELSE UNION {{<<g>> \o r : g \in GroupShapes(k), r \in TreeShapes(n - k)} :
                k \in 1..n}

RECURSIVE KeysBeforePred(_, _)
KeysBeforePred(g, i) == IF i <= 1 THEN 0 ELSE KeysBeforePred(g, i - 1) + Len(g[i - 1])

RECURSIVE KeysBeforeGroup(_, _)
KeysBeforeGroup(shape, k) ==
    IF k <= 1 THEN 0
    ELSE KeysBeforeGroup(shape, k - 1)
         + KeysBeforePred(shape[k - 1], Len(shape[k - 1]) + 1)

KeyIndex(keys, f) == CHOOSE j \in 1..Len(keys) : keys[j] = f

\* The filter tree (a list of groups {"filters": [...]}) of the given shape whose
\* leaves are, in order, leafs[1], leafs[2], ...
Build(shape, leafs) ==
    [k \in 1..Len(shape) |->
        [filters |->
            [i \in 1..Len(shape[k]) |->
                [f \in {shape[k][i][j] : j \in 1..Len(shape[k][i])} |->
                    leafs[KeysBeforeGroup(shape, k) + KeysBeforePred(shape[k], i)
                          + KeyIndex(shape[k][i], f)]]]]]

\* The trees the model passes to format_filters: any leaf under "value"; a date
\* or a word under "highValue"; two predicates with both keys.
InputTree(t) ==
    \A k \in 1..Len(t) : \A i \in 1..Len(t[k].filters) :
        LET p == t[k].filters[i]
        IN  /\ ("highValue" \in DOMAIN p => p["highValue"] \in {IsoDay2, Word})
            /\ (DOMAIN p = {"value", "highValue"} =>
                    <<p["value"], p["highValue"]>>
                        \in {<<IsoDay2, IsoDay20>>, <<Word, IsoDay2>>})

\* The filters a caller of run passes: none, one date predicate or one other.
RunFilters ==
    {<<>>, <<[filters |-> <<[value |-> IsoDay2]>>]>>, <<[filters |-> <<[value |-> Word]>>]>>}

\* ------------------------------------------------------------ API responses

\* The "paging" key of a decoded response: absent, present without a next/after
\* token inside, or present with one.
NoPaging == [present |-> FALSE, hasnext |-> FALSE, after |-> PyNone]
PagingNoNext == [present |-> TRUE, hasnext |-> FALSE, after |-> PyNone]
PagingAfter(tok) == [present |-> TRUE, hasnext |-> TRUE, after |-> tok]

\* The top-level "offset" key: absent, or present with a value.
NoOffset == [present |-> FALSE, value |-> PyNone]
OffsetAt(v) == [present |-> TRUE, value |-> v]

\* The row limits a caller passes: None, a small one, or 90.
NRows == {PyNone} \cup {PyInt(n) : n \in 0..MaxRows} \cup {PyInt(90)}

\* The page sizes the API serves: pages of 20 or 40 records to the caller asking
\* for 90 rows, small pages otherwise.
PageSizes(n) == IF n = PyInt(90) THEN {20, 40} ELSE 0..MaxPageLen

\* The paging keys the API sends with the page answering request number calls + 1:
\* to the caller asking for 90 rows none or one with a token, otherwise also one
\* with no token inside and one with an empty token.
Pagings(calls, n) ==
    LET tok == PagingAfter(PyStr(IF calls % 2 = 0 THEN "a" ELSE "b"))
    IN  IF n = PyInt(90) THEN {NoPaging, tok}
        ELSE {NoPaging, PagingNoNext, PagingAfter(PyStr("")), tok}

\* The responses the API may give once `count` records were served before and
\* `calls` requests were answered: the next k records in server order under the
\* response's first key, a paging key, and an offset key, absent or holding the
\* position reached.
Responses(count, calls, n) ==
    {[results |-> [i \in 1..k |-> count + i],
      paging |-> pg,
      offset |-> IF hasoffset THEN OffsetAt(PyInt(count + k)) ELSE NoOffset] :
        k \in PageSizes(n),
        pg \in Pagings(calls, n),
        hasoffset \in IF n = PyInt(90) THEN {FALSE} ELSE BOOLEAN}

\* ------------------------------------------------------------------- state

VARIABLES
    pc,                \* where the call is: "start", "post_first", "post_loop", "get_loop",
                       \* "materialize", "done", "raised"; "caller" in SpecFilters
    filters,           \* the filter list object the caller holds (its contents)
    nrows,             \* the row limit passed to run
    tz,                \* the UTC offset of the machine, in minutes
    method,            \* self.method
    request,           \* the last request handed to hubspot.to_json
    partition,         \* the last decoded response
    full_dataset,      \* the accumulated records
    offset_type,       \* run's offset_type (GET path)
    offset_value,      \* run's offset_value (GET path)
    filters_formatted, \* what format_filters returned (the object's contents)
    alias,             \* whether that object is the caller's own list
    df,                \* the table run returns
    err,               \* the exception that ended the call, "" if none
    served,            \* history: every record the API returned, in order
    fetches,           \* history: the calls of to_json (counted up to MaxFetches)
    stops,             \* history: the pages received from the first one on that
                       \* had no paging key or reached the row limit (up to 2)
    page_sizes,        \* history: the sizes of the first pages received
    wellformed,        \* history: every paging key received held a next/after token
    first,             \* history: the first response, if it carried no cursor key
    original,          \* history: the caller's filter list as first passed
    first_formatted,   \* history: what the first call of format_filters returned
    calls,             \* history: the calls of format_filters made by SpecFilters
    args,              \* the arguments of Mindful(...), with the clock's reading
    start_date,        \* self.start_date of the Mindful instance
    end_date,          \* self.end_date
    endpoint,          \* self.endpoint
    file_extension,    \* self.file_extension
    api_request,       \* the last request handed to handle_api_response
    outcome,           \* the last call on the instance: what it returned or raised
    held,              \* the responses the caller holds, by the call that returned them
    written            \* the last file response_to_file wrote

hubspot_vars ==
    <<filters, nrows, tz, method, request, partition, full_dataset, offset_type,
      offset_value, filters_formatted, alias, df, err, served, fetches, stops,
      page_sizes, wellformed, first, original, first_formatted, calls>>

mindful_vars ==
    <<args, start_date, end_date, endpoint, file_extension, api_request, outcome, held,
      written>>

vars == <<pc, hubspot_vars, mindful_vars>>

NoResponse == [results |-> <<>>, paging |-> NoPaging, offset |-> NoOffset]
NoRequest == [method |-> "", cursors |-> <<>>, body |-> <<>>, after |-> NoOffset]
NoFirst == [nocursor |-> FALSE, results |-> <<>>]

\* to_df(result): one row per record, in the order of the records.
to_df(result) == [i \in 1..Len(result) |-> result[i]]

\* get_offset_from_response with the two tests in the other order.
get_offset_from_response_offset_first(api_response) ==
    IF api_response.offset.present
    THEN [ok |-> TRUE, type |-> PyStr("offset"), value |-> api_response.offset.value]
    ELSE IF api_response.paging.present
    THEN IF api_response.paging.hasnext
         THEN [ok |-> TRUE, type |-> PyStr("after"), value |-> api_response.paging.after]
         ELSE [ok |-> FALSE, type |-> PyNone, value |-> PyNone]
    ELSE [ok |-> TRUE, type |-> PyNone, value |-> PyNone]

\* get_offset_from_response(api_response): a "paging" key is read as an after
\* cursor (KeyError, ok = FALSE, when it holds no next/after token), else an
\* "offset" key as an offset cursor, else (None, None).
get_offset_from_response(api_response) ==
    IF api_response.paging.present
    THEN IF api_response.paging.hasnext
         THEN [ok |-> TRUE, type |-> PyStr("after"), value |-> api_response.paging.after]
         ELSE [ok |-> FALSE, type |-> PyNone, value |-> PyNone]
    ELSE IF api_response.offset.present
    THEN [ok |-> TRUE, type |-> PyStr("offset"), value |-> api_response.offset.value]
    ELSE [ok |-> TRUE, type |-> PyNone, value |-> PyNone]

\* PostWhile with <= for <.
PostWhileInclusive(part, data, n) ==
    IF ~part.paging.present THEN "false"
    ELSE IF n.t = "None" THEN "TypeError"
    ELSE IF Len(data) <= n.n THEN "true" ELSE "false"

\* The loop condition of the filter path, `"paging" in partition.keys() and
\* len(full_dataset) < nrows`: int < None raises TypeError.
PostWhile(part, data, n) ==
    IF ~part.paging.present THEN "false"
    ELSE IF n.t = "None" THEN "TypeError"
    ELSE IF Len(data) < n.n THEN "true" ELSE "false"

\* GetWhile without the test of the cursor.
GetWhileIgnoresCursor(value, data, n) ==
    IF n.t = "None" THEN "TypeError"
    ELSE IF Len(data) < n.n THEN "true" ELSE "false"

\* The loop condition of the other path, `offset_value and len(full_dataset) < nrows`.
GetWhile(value, data, n) ==
    IF ~Truthy(value) THEN "false"
    ELSE IF n.t = "None" THEN "TypeError"
    ELSE IF Len(data) < n.n THEN "true" ELSE "false"

\* full_dataset.extend(results)
Extend(data, results) == data \o results

\* The history variables once response resp has been received.
Received(resp) ==
    /\ served' = served \o resp.results
    /\ fetches' = Min(fetches + 1, MaxFetches)
    /\ stops' = IF \/ stops >= 1
                   \/ ~resp.paging.present
                   \/ (nrows.t = "int" /\ Len(served) + Len(resp.results) >= nrows.n)
                THEN Min(stops + 1, 2) ELSE stops
    /\ page_sizes' = IF Len(page_sizes) < MaxSizesKept
                     THEN Append(page_sizes, Len(resp.results)) ELSE page_sizes
    /\ wellformed' = (wellformed /\ (resp.paging.present => resp.paging.hasnext))
    /\ first' = IF fetches # 0 THEN first
                ELSE IF resp.paging.present \/ resp.offset.present THEN NoFirst
                ELSE [nocursor |-> TRUE, results |-> resp.results]

\* No Mindful instance is in play.
NoArgs ==
    [credentials |-> "", start_date |-> PyNone, end_date |-> PyNone, date_interval |-> 0,
     file_extension |-> "", now |-> 0]
NoApiRequest == [endpoint |-> "", limit |-> 0, start_date |-> PyNone, end_date |-> PyNone]
NoOutcome == [call |-> "", status |-> 0, returned |-> FALSE, raised |-> "", warned |-> FALSE]
NoFile == [stem |-> "", extension |-> "", data |-> ""]

MindfulIdle ==
    /\ args = NoArgs
    /\ start_date = PyNone
    /\ end_date = PyNone
    /\ endpoint = ""
    /\ file_extension = ""
    /\ api_request = NoApiRequest
    /\ outcome = NoOutcome
    /\ held = {}
    /\ written = NoFile

Init ==
    /\ pc = "start"
    /\ filters \in RunFilters
    /\ nrows \in NRows
    /\ tz \in UtcOffsets
    /\ method = ""
    /\ request = NoRequest
    /\ partition = NoResponse
    /\ full_dataset = <<>>
    /\ offset_type = PyNone
    /\ offset_value = PyNone
    /\ filters_formatted = <<>>
    /\ alias = FALSE
    /\ df = <<>>
    /\ err = ""
    /\ served = <<>>
    /\ fetches = 0
    /\ stops = 0
    /\ page_sizes = <<>>
    /\ wellformed = TRUE
    /\ first = NoFirst
    /\ original = filters
    /\ first_formatted = <<>>
    /\ calls = 0
    /\ MindfulIdle

\* run, lines 119-123: filters given. They are formatted and made the body of a
\* POST request.
StartPost ==
    /\ pc = "start"
    /\ filters # <<>>
    /\ \E ff \in {format_filters(filters, tz)} :
          /\ filters' = ff.arg
          /\ filters_formatted' = ff.ret
          /\ alias' = ff.same
          /\ request' = [method |-> "POST", cursors |-> <<>>, body |-> ff.ret,
                         after |-> NoOffset]
    /\ method' = "POST"
    /\ pc' = "post_first"
    /\ UNCHANGED <<mindful_vars, nrows, tz, partition, full_dataset, offset_type, offset_value, df, err,
                   served, fetches, stops, page_sizes, wellformed, first, original,
                   first_formatted, calls>>

\* run, lines 124-125: the first page of the filter path; its results start the
\* dataset.
PostFirst ==
    /\ pc = "post_first"
    /\ \E resp \in Responses(Len(served), fetches, nrows) :
          /\ partition' = resp
          /\ full_dataset' = resp.results
          /\ Received(resp)
    /\ pc' = "post_loop"
    /\ UNCHANGED <<mindful_vars, filters, nrows, tz, method, request, offset_type, offset_value,
                   filters_formatted, alias, df, err, original, first_formatted, calls>>

\* PostFetch asking for the follow-up pages with GET.
PostFetchByGet ==
    /\ pc = "post_loop"
    /\ PostWhile(partition, full_dataset, nrows) = "true"
    /\ partition.paging.hasnext
    /\ request' = [method |-> "GET", cursors |-> <<>>, body |-> filters_formatted,
                   after |-> OffsetAt(partition.paging.after)]
    /\ \E resp \in Responses(Len(served), fetches, nrows) :
          /\ partition' = resp
          /\ full_dataset' = Extend(full_dataset, resp.results)
          /\ Received(resp)
    /\ UNCHANGED <<mindful_vars, pc, filters, nrows, tz, method, offset_type, offset_value,
                   filters_formatted, alias, df, err, original, first_formatted, calls>>

\* run, lines 127-133: one more page of the filter path, asked for with the
\* after token of the page before.
PostFetch ==
    /\ pc = "post_loop"
    /\ PostWhile(partition, full_dataset, nrows) = "true"
    /\ partition.paging.hasnext
    /\ request' = [method |-> method, cursors |-> <<>>, body |-> filters_formatted,
                   after |-> OffsetAt(partition.paging.after)]
    /\ \E resp \in Responses(Len(served), fetches, nrows) :
          /\ partition' = resp
          /\ full_dataset' = Extend(full_dataset, resp.results)
          /\ Received(resp)
    /\ UNCHANGED <<mindful_vars, pc, filters, nrows, tz, method, offset_type, offset_value,
                   filters_formatted, alias, df, err, original, first_formatted, calls>>

\* run, lines 127 and 129: the loop condition raises TypeError for nrows None,
\* and the body raises KeyError for a paging key without a next/after token.
PostRaise ==
    /\ pc = "post_loop"
    /\ \/ /\ PostWhile(partition, full_dataset, nrows) = "TypeError"
          /\ err' = "TypeError"
       \/ /\ PostWhile(partition, full_dataset, nrows) = "true"
          /\ ~partition.paging.hasnext
          /\ err' = "KeyError"
    /\ pc' = "raised"
    /\ UNCHANGED <<mindful_vars, filters, nrows, tz, method, request, partition, full_dataset,
                   offset_type, offset_value, filters_formatted, alias, df, served,
                   fetches, stops, page_sizes, wellformed, first, original, first_formatted, calls>>

\* run, line 127: the loop condition is false.
PostExit ==
    /\ pc = "post_loop"
    /\ PostWhile(partition, full_dataset, nrows) = "false"
    /\ pc' = "materialize"
    /\ UNCHANGED <<mindful_vars, filters, nrows, tz, method, request, partition, full_dataset,
                   offset_type, offset_value, filters_formatted, alias, df, err, served,
                   fetches, stops, page_sizes, wellformed, first, original, first_formatted, calls>>

\* The cursor variables of the GET path after response resp (lines 141-142 and
\* 155-156), or the KeyError get_offset_from_response raises.
Detect(resp) ==
    LET cursor == get_offset_from_response(resp)
    IN  IF cursor.ok
        THEN /\ offset_type' = cursor.type
             /\ offset_value' = cursor.value
             /\ pc' = "get_loop"
             /\ err' = err
        ELSE /\ offset_type' = offset_type
             /\ offset_value' = offset_value
             /\ pc' = "raised"
             /\ err' = "KeyError"

\* run, lines 135-142: no filters. The first page is asked for with GET, the
\* value under its first key starts the dataset, and its cursor is read.
StartGet ==
    /\ pc = "start"
    /\ filters = <<>>
    /\ method' = "GET"
    /\ request' = [method |-> "GET", cursors |-> <<>>, body |-> <<>>, after |-> NoOffset]
    /\ \E resp \in Responses(Len(served), fetches, nrows) :
          /\ partition' = resp
          /\ full_dataset' = resp.results
          /\ Received(resp)
          /\ Detect(resp)
    /\ UNCHANGED <<mindful_vars, filters, nrows, tz, filters_formatted, alias, df, original,
                   first_formatted, calls>>

\* GetFetch appending the cursor to the url of the request before.
GetFetchKeepsUrl ==
    /\ pc = "get_loop"
    /\ GetWhile(offset_value, full_dataset, nrows) = "true"
    /\ request' = [method |-> method,
                   cursors |-> Append(request.cursors,
                                      [type |-> offset_type, value |-> offset_value]),
                   body |-> <<>>, after |-> NoOffset]
    /\ \E resp \in Responses(Len(served), fetches, nrows) :
          /\ partition' = resp
          /\ full_dataset' = Extend(full_dataset, resp.results)
          /\ Received(resp)
          /\ Detect(resp)
    /\ UNCHANGED <<mindful_vars, filters, nrows, tz, method, filters_formatted, alias, df,
                   original, first_formatted, calls>>

\* run, lines 144-156: one more page of the GET path, asked for at the base url
\* with "<offset_type>=<offset_value>" appended.
GetFetch ==
    /\ pc = "get_loop"
    /\ GetWhile(offset_value, full_dataset, nrows) = "true"
    /\ request' = [method |-> method,
                   cursors |-> <<[type |-> offset_type, value |-> offset_value]>>,
                   body |-> <<>>, after |-> NoOffset]
    /\ \E resp \in Responses(Len(served), fetches, nrows) :
          /\ partition' = resp
          /\ full_dataset' = Extend(full_dataset, resp.results)
          /\ Received(resp)
          /\ Detect(resp)
    /\ UNCHANGED <<mindful_vars, filters, nrows, tz, method, filters_formatted, alias, df, original,
                   first_formatted, calls>>

\* run, line 144: the loop condition raises TypeError for nrows None.
GetRaise ==
    /\ pc = "get_loop"
    /\ GetWhile(offset_value, full_dataset, nrows) = "TypeError"
    /\ err' = "TypeError"
    /\ pc' = "raised"
    /\ UNCHANGED <<mindful_vars, filters, nrows, tz, method, request, partition, full_dataset,
                   offset_type, offset_value, filters_formatted, alias, df, served,
                   fetches, stops, page_sizes, wellformed, first, original, first_formatted, calls>>

\* run, line 144: the loop condition is false.
GetExit ==
    /\ pc = "get_loop"
    /\ GetWhile(offset_value, full_dataset, nrows) = "false"
    /\ pc' = "materialize"
    /\ UNCHANGED <<mindful_vars, filters, nrows, tz, method, request, partition, full_dataset,
                   offset_type, offset_value, filters_formatted, alias, df, err, served,
                   fetches, stops, page_sizes, wellformed, first, original, first_formatted, calls>>

\* run, lines 158-160: the table of the dataset, cut to nrows, is returned.
Materialize ==
    /\ pc = "materialize"
    /\ df' = PySlice(to_df(full_dataset), nrows)
    /\ pc' = "done"
    /\ UNCHANGED <<mindful_vars, filters, nrows, tz, method, request, partition, full_dataset,
                   offset_type, offset_value, filters_formatted, alias, err, served,
                   fetches, stops, page_sizes, wellformed, first, original, first_formatted, calls>>

Next ==
    \/ StartPost
    \/ PostFirst
    \/ PostFetch
    \/ PostRaise
    \/ PostExit
    \/ StartGet
    \/ GetFetch
    \/ GetRaise
    \/ GetExit
    \/ Materialize

Spec == Init /\ [][Next]_vars

\* One call of run is one thread of control: a step that can be taken is taken.
SpecFair == Spec /\ WF_vars(Next)

\* ------------------------------------------------- format_filters on its own

InitFilters ==
    /\ pc = "caller"
    /\ \E n \in 1..MaxLeaves : \E shape \in TreeShapes(n) : \E leafs \in [1..n -> Leaves] :
          /\ filters = Build(shape, leafs)
          /\ InputTree(filters)
    /\ nrows = PyNone
    /\ tz \in UtcOffsets
    /\ method = ""
    /\ request = NoRequest
    /\ partition = NoResponse
    /\ full_dataset = <<>>
    /\ offset_type = PyNone
    /\ offset_value = PyNone
    /\ filters_formatted = <<>>
    /\ alias = FALSE
    /\ df = <<>>
    /\ err = ""
    /\ served = <<>>
    /\ fetches = 0
    /\ stops = 0
    /\ page_sizes = <<>>
    /\ wellformed = TRUE
    /\ first = NoFirst
    /\ original = filters
    /\ first_formatted = <<>>
    /\ calls = 0
    /\ MindfulIdle

\* The caller passes the list it holds to format_filters.
FormatCall ==
    /\ pc = "caller"
    /\ calls = 0
    /\ \E ff \in {format_filters(filters, tz)} :
          /\ filters' = ff.arg
          /\ filters_formatted' = ff.ret
          /\ first_formatted' = ff.ret
          /\ alias' = ff.same
    /\ calls' = 1
    /\ UNCHANGED <<mindful_vars, pc, nrows, tz, method, request, partition, full_dataset, offset_type,
                   offset_value, df, err, served, fetches, stops, page_sizes, wellformed, first,
                   original>>

\* The caller passes what the first call returned to format_filters again; the
\* list the caller holds changes with it when the two are one object.
FormatAgain ==
    /\ pc = "caller"
    /\ calls = 1
    /\ \E ff \in {format_filters(filters_formatted, tz)} :
          /\ filters' = IF alias THEN ff.arg ELSE filters
          /\ filters_formatted' = ff.ret
          /\ alias' = (alias /\ ff.same)
    /\ calls' = 2
    /\ UNCHANGED <<mindful_vars, pc, nrows, tz, method, request, partition, full_dataset, offset_type,
                   offset_value, df, err, served, fetches, stops, page_sizes, wellformed, first,
                   original, first_formatted>>

NextFilters ==
    \/ FormatCall
    \/ FormatAgain

SpecFilters == InitFilters /\ [][NextFilters]_vars

\* ------------------------------------------------------------------ Mindful

\* The status code of a successful request (lines 142 and 180).
StatusOk == 200
\* The default of the limit parameter of the two list requests.
DefaultLimit == 1000

\* isinstance(v, datetime)
IsDatetime(v) == v.t = "datetime"

\* dt + timedelta(days=k)
PlusDays(dt, k) == PyDatetime(dt.n + k)

\* f"{dt}": the text of a datetime, which names the datetime it was made from.
Text(dt) == [t |-> "str", n |-> dt.n, s |-> "datetime"]

\* Window with the order of the two dates also accepted when they are equal.
WindowAcceptsEqual(sd, ed, date_interval, now) ==
    IF ~IsDatetime(sd)
    THEN [ok |-> TRUE, start_date |-> PyDatetime(now),
          end_date |-> PlusDays(PyDatetime(now), date_interval)]
    ELSE IF ~IsDatetime(ed)
    THEN [ok |-> TRUE, start_date |-> sd, end_date |-> PlusDays(sd, date_interval)]
    ELSE IF sd.n > ed.n
    THEN [ok |-> FALSE, start_date |-> PyNone, end_date |-> PyNone]
    ELSE [ok |-> TRUE, start_date |-> sd, end_date |-> ed]

\* The time window of __init__ (lines 63-84): a start_date that is no datetime
\* gives the clock's reading and date_interval days from it; a start_date
\* without a datetime end_date gives date_interval days from start_date; start
\* at or after end raises ValueError (ok = FALSE); else the two dates as given.
Window(sd, ed, date_interval, now) ==
    IF ~IsDatetime(sd)
    THEN [ok |-> TRUE, start_date |-> PyDatetime(now),
          end_date |-> PlusDays(PyDatetime(now), date_interval)]
    ELSE IF ~IsDatetime(ed)
    THEN [ok |-> TRUE, start_date |-> sd, end_date |-> PlusDays(sd, date_interval)]
    ELSE IF sd.n >= ed.n
    THEN [ok |-> FALSE, start_date |-> PyNone, end_date |-> PyNone]
    ELSE [ok |-> TRUE, start_date |-> sd, end_date |-> ed]

\* StatusIsOk taking every 2xx status for success.
StatusIsSuccess(status) == status >= 200 /\ status < 300

\* response.status_code == 200
StatusIsOk(status) == status = StatusOk

\* What a caller passes for start_date and end_date: nothing, a str (no
\* datetime), or a datetime.
DateArgs == {PyNone, PyStr("2023-01-01")} \cup {PyDatetime(d) : d \in 1..MaxDay}
Intervals == -1..MaxInterval
\* Credentials passed by the caller, found in local_config, or in neither.
CredentialSources == {"given", "config", "none"}
\* file_extension: the two the class writes, and one it does not.
Extensions == {"csv", "parquet", "xlsx"}
\* The status codes the API answers with.
Statuses == {StatusOk, 204, 500}
\* What a caller passes for file_name: nothing, an empty str, or a name.
FileNames == {PyNone, PyStr(""), PyStr("out")}

\* No HubspotToDF call is in play.
HubspotIdle ==
    /\ filters = <<>>
    /\ nrows = PyNone
    /\ tz = 0
    /\ method = ""
    /\ request = NoRequest
    /\ partition = NoResponse
    /\ full_dataset = <<>>
    /\ offset_type = PyNone
    /\ offset_value = PyNone
    /\ filters_formatted = <<>>
    /\ alias = FALSE
    /\ df = <<>>
    /\ err = ""
    /\ served = <<>>
    /\ fetches = 0
    /\ stops = 0
    /\ page_sizes = <<>>
    /\ wellformed = TRUE
    /\ first = NoFirst
    /\ original = <<>>
    /\ first_formatted = <<>>
    /\ calls = 0

InitMindful ==
    /\ pc = "new"
    /\ args \in [credentials : CredentialSources, start_date : DateArgs,
                 end_date : DateArgs, date_interval : Intervals,
                 file_extension : Extensions, now : {MaxDay}]
    /\ start_date = PyNone
    /\ end_date = PyNone
    /\ endpoint = ""
    /\ file_extension = ""
    /\ api_request = NoApiRequest
    /\ outcome = NoOutcome
    /\ held = {}
    /\ written = NoFile
    /\ HubspotIdle

\* Mindful.__init__ (lines 41-89): CredentialError without credentials, else the
\* time window, where ValueError leaves no instance, and the file extension.
MindfulInit ==
    /\ pc = "new"
    /\ \E w \in {Window(args.start_date, args.end_date, args.date_interval, args.now)} :
          IF args.credentials = "none"
          THEN /\ pc' = "no_instance"
               /\ outcome' = [NoOutcome EXCEPT !.call = "__init__",
                                               !.raised = "CredentialError"]
               /\ UNCHANGED <<start_date, end_date, file_extension>>
          ELSE IF ~w.ok
          THEN /\ pc' = "no_instance"
               /\ outcome' = [NoOutcome EXCEPT !.call = "__init__", !.raised = "ValueError"]
               /\ UNCHANGED <<start_date, end_date, file_extension>>
          ELSE /\ pc' = "ready"
               /\ outcome' = [NoOutcome EXCEPT !.call = "__init__", !.returned = TRUE]
               /\ start_date' = w.start_date
               /\ end_date' = w.end_date
               /\ file_extension' = args.file_extension
    /\ UNCHANGED <<hubspot_vars, args, endpoint, api_request, held, written>>

\* _mindful_api_response(params, endpoint): the GET request handed to
\* handle_api_response.
_mindful_api_response(params, name) ==
    [endpoint |-> name, limit |-> params.limit, start_date |-> params.start_date,
     end_date |-> params.end_date]

\* The body the two list requests share: self.endpoint is set, the request is
\* made with the window as text, and the response is returned if its status is
\* 200; any other status raises APIError.
GetList(call, name) ==
    /\ pc = "ready"
    /\ endpoint' = name
    /\ api_request' = _mindful_api_response(
                          [limit |-> DefaultLimit, start_date |-> Text(start_date),
                           end_date |-> Text(end_date)], name)
    /\ \E status \in Statuses :
          IF StatusIsOk(status)
          THEN /\ outcome' = [NoOutcome EXCEPT !.call = call, !.status = status,
                                               !.returned = TRUE]
               /\ held' = held \cup {name}
          ELSE /\ outcome' = [NoOutcome EXCEPT !.call = call, !.status = status,
                                               !.raised = "APIError"]
               /\ held' = held
    /\ UNCHANGED <<pc, hubspot_vars, args, start_date, end_date, file_extension, written>>

\* get_interactions_list (lines 130-152)
get_interactions_list == GetList("get_interactions_list", "interactions")

\* get_responses_list (lines 168-188)
get_responses_list == GetList("get_responses_list", "responses")

\* response_to_file(response, file_name) (lines 201-218) for a response the
\* caller holds: the file is named after file_name, or after self.endpoint when
\* file_name is falsy, and written as csv or parquet; any other extension is a
\* warning and no file.
response_to_file ==
    /\ pc = "ready"
    /\ \E response \in held, file_name \in FileNames :
          LET stem == IF ~Truthy(file_name) THEN endpoint ELSE file_name.s
          IN  IF file_extension \in {"csv", "parquet"}
              THEN /\ written' = [stem |-> stem, extension |-> file_extension,
                                  data |-> response]
                   /\ outcome' = [NoOutcome EXCEPT !.call = "response_to_file",
                                                   !.returned = TRUE]
              ELSE /\ written' = written
                   /\ outcome' = [NoOutcome EXCEPT !.call = "response_to_file",
                                                   !.returned = TRUE, !.warned = TRUE]
    /\ UNCHANGED <<pc, hubspot_vars, args, start_date, end_date, endpoint, file_extension,
                   api_request, held>>

NextMindful ==
    \/ MindfulInit
    \/ get_interactions_list
    \/ get_responses_list
    \/ response_to_file

SpecMindful == InitMindful /\ [][NextMindful]_vars

\* ------------------------------------------------------------ the page loop

\* The first n records the API served, in the order it served them.
FirstServed(n) == SubSeq(served, 1, Min(n, Len(served)))

\* C1: with filters and a row limit n >= 0, over pages linked by after tokens, run
\* never fetches again after the first page that has no paging key or brings the
\* count to n or more, does not return before such a page, and returns exactly
\* the first min(n, count) records in the order served; pages of 40, 40 and 20
\* records with n = 90 give 90 rows in 3 fetches.
C1_LimitedExtraction ==
    (method = "POST" /\ nrows.t = "int" /\ wellformed) =>
        /\ pc # "raised"
        /\ stops <= 1
        /\ (pc \in {"materialize", "done"} => stops = 1)
        /\ (pc = "done" => df = FirstServed(nrows.n))
        /\ (pc = "done" /\ nrows.n = 90 /\ Len(page_sizes) >= 3
                /\ SubSeq(page_sizes, 1, 3) = <<40, 40, 20>>
            => fetches = 3 /\ df = [i \in 1..90 |-> i])

C1_Witness ==
    /\ pc = "done"
    /\ method = "POST"
    /\ wellformed
    /\ nrows = PyInt(90)
    /\ page_sizes = <<40, 40, 20>>
    /\ fetches = 3
    /\ Len(served) = 100
    /\ Len(df) = 90

\* C2: with row limit None run raises nothing, and what it returns is every
\* record served, the last response carrying no cursor.
C2_DrainsWithoutLimit ==
    (nrows = PyNone /\ wellformed) =>
        /\ pc # "raised"
        /\ (pc = "done" =>
               /\ df = served
               /\ get_offset_from_response(partition).type = PyNone)

\* C3: every call of run ends, by returning or by raising.
C3_EveryCallEnds == <>(pc \in {"done", "raised"})

\* C4: when the first response carries neither a paging nor an offset key, run
\* fetches once and returns that response's records (cut to the row limit when
\* there are more of them, all of them when there are fewer), on both paths.
C4_SinglePageWithoutCursor ==
    first.nocursor =>
        /\ fetches = 1
        /\ pc # "raised"
        /\ (pc = "done" =>
               df = IF nrows.t = "None" THEN first.results
                    ELSE SubSeq(first.results, 1, Min(nrows.n, Len(first.results))))

C4_Witness ==
    /\ pc = "done"
    /\ method = "GET"
    /\ first.nocursor
    /\ nrows.t = "int"
    /\ Len(first.results) > 0
    /\ Len(first.results) < nrows.n
    /\ df = first.results

C6_AfterHasPriority ==
    (/\ method = "GET"
     /\ pc \in {"get_loop", "materialize", "done"}
     /\ partition.paging.hasnext
     /\ partition.offset.present) =>
        /\ offset_type = PyStr("after")
        /\ offset_value = partition.paging.after

C6_Witness ==
    /\ method = "GET"
    /\ pc = "get_loop"
    /\ partition.paging.hasnext
    /\ partition.offset.present
    /\ partition.offset.value # partition.paging.after
    /\ offset_type = PyStr("after")
    /\ offset_value = partition.paging.after

\* ------------------------------------------------------- the filter normaliser

\* The places of the leaves a predicate of a group holds directly.
DirectPlaces(t) ==
    UNION {UNION {{[item |-> k, iterator |-> i, subitem |-> f] :
                      f \in DOMAIN t[k].filters[i]} :
                  i \in 1..Len(t[k].filters)} :
           k \in 1..Len(t)}

LeafAt(t, p) == t[p.item].filters[p.iterator][p.subitem]

\* The places of the leaves inside the nested collection at place p.
NestedPlaces(t, p) ==
    IF LeafAt(t, p).t # "list" THEN {}
    ELSE UNION {{[at |-> p, index |-> j, subitem |-> f] :
                    f \in DOMAIN LeafAt(t, p).sub[j]} :
                j \in 1..Len(LeafAt(t, p).sub)}

NestedLeafAt(t, q) == LeafAt(t, q.at).sub[q.index][q.subitem]

\* Two trees with the same groups, predicates and keys.
SameShape(t, u) ==
    /\ Len(t) = Len(u)
    /\ \A k \in 1..Len(t) :
          /\ Len(t[k].filters) = Len(u[k].filters)
          /\ \A i \in 1..Len(t[k].filters) :
                DOMAIN t[k].filters[i] = DOMAIN u[k].filters[i]

\* C7: after format_filters the list the caller passed holds what it held before.
C7_CallerTreeUntouched == calls >= 1 => filters = original

\* C8: format_filters applied to what format_filters returned returns the same
\* tree again; no leaf, converted or not, changes in the second pass.
C8_Idempotent == calls = 2 => filters_formatted = first_formatted

C8_Witness ==
    /\ calls = 2
    /\ first_formatted # original
    /\ \E p, q, r \in DirectPlaces(original) :
          /\ LeafAt(original, p) \in DateLeaves
          /\ LeafAt(original, q) = Millis
          /\ LeafAt(original, r) \in {Word, Flag, NoSuchDay}

\* C9: format_filters returns for every tree, and every leaf that is no ISO date
\* (an int, a bool, a str that is no date, a nested collection) is in the result
\* what it was in the input, at the same place of a tree of the same shape.
C9_NonDatesUnchanged ==
    calls >= 1 =>
        /\ SameShape(original, first_formatted)
        /\ \A p \in DirectPlaces(original) :
              LeafAt(original, p) \notin DateLeaves =>
                  LeafAt(first_formatted, p) = LeafAt(original, p)

C9_Witness ==
    /\ calls = 1
    /\ first_formatted # original
    /\ \E p, q \in DirectPlaces(original) :
          /\ LeafAt(original, p) = NoSuchDay
          /\ LeafAt(original, q) \in {Millis, Flag, Word}
          /\ LeafAt(first_formatted, p) = NoSuchDay

C11_MidnightUtcOnAnyMachine ==
    calls >= 1 =>
        \A p \in DirectPlaces(original) :
            LET d == FromIsoformat(LeafAt(original, p))
            IN  d.ok => LeafAt(first_formatted, p)
                            = LeafInt(86400000 * DaysSinceEpoch(d.y, d.m, d.d))

\* ------------------------------------------------------------- the Mindful source

\* C12: the window of every Mindful instance, and of every request made, has
\* start_date strictly before end_date, for every start_date, end_date and
\* date_interval passed.
C12_WindowStrictlyOrdered ==
    /\ (pc = "ready" => start_date.n < end_date.n)
    /\ (api_request # NoApiRequest => api_request.start_date.n < api_request.end_date.n)

C14_EndDateOverridesInterval ==
    (pc = "ready" /\ args.end_date.t = "datetime") => end_date = args.end_date

\* C15: a list request returns its response exactly when the status is 200;
\* with any other status it raises APIError and the caller gets nothing.
C15_OnlyOkIsReturned ==
    outcome.call \in {"get_interactions_list", "get_responses_list"} =>
        /\ outcome.returned <=> outcome.status = 200
        /\ outcome.status # 200 => (outcome.raised = "APIError" /\ ~outcome.returned)
        /\ outcome.returned => outcome.raised = ""
        /\ held = {} => ~outcome.returned

C15_Witness ==
    /\ outcome.call = "get_responses_list"
    /\ outcome.status = 204
    /\ outcome.raised = "APIError"
    /\ held = {"interactions"}

\* C16: a file written by response_to_file without a file_name is named after
\* the endpoint the response it holds came from, whatever other calls were made
\* on the instance in between.
C16_FileNamedAfterItsResponse ==
    written.stem \in {"interactions", "responses"} => written.stem = written.data

\* ------------------------------------------------- the requests of the page loop

\* C17: every request of a call of run, the first and the follow-ups, is a POST
\* when the caller passed a non-empty filter list and a GET when it did not.
C17_OneMethodPerCall ==
    request # NoRequest =>
        /\ request.method = (IF original # <<>> THEN "POST" ELSE "GET")
        /\ method = request.method

C17_Witness ==
    /\ original # <<>>
    /\ fetches >= 3
    /\ request.method = "POST"
    /\ request.after.present

\* C18: run leaves its loop only when the last response carries no cursor (no
\* paging key and no offset key) or the records gathered have reached the row
\* limit.
C18_DoneOnlyWithoutCursorOrAtLimit ==
    pc \in {"materialize", "done"} =>
        \/ (~partition.paging.present /\ ~partition.offset.present)
        \/ (nrows.t = "int" /\ Len(full_dataset) >= nrows.n)

\* C19: no call ends in the KeyError of a paging key without a next/after token,
\* and the cursor read on the GET path is the after token when the paging key
\* holds one, else the offset when there is an offset key, else (None, None).
C19_DetectorIsTotal ==
    /\ err # "KeyError"
    /\ (method = "GET" /\ fetches >= 1) =>
          /\ offset_type =
                (IF partition.paging.present /\ partition.paging.hasnext
                 THEN PyStr("after")
                 ELSE IF partition.offset.present THEN PyStr("offset") ELSE PyNone)
          /\ offset_value =
                (IF partition.paging.present /\ partition.paging.hasnext
                 THEN partition.paging.after
                 ELSE IF partition.offset.present THEN partition.offset.value
                 ELSE PyNone)

\* C20: a follow-up request carries one cursor, that of the response before it:
\* on the GET path the url holds the single parameter made of that response's
\* cursor, on the filter path the body is the formatted filters with after set
\* to that response's token.
C20_OneCursorFromLastResponse ==
    [][/\ (pc = "post_loop" /\ pc' = "post_loop") =>
              request' = [method |-> "POST", cursors |-> <<>>, body |-> filters_formatted,
                          after |-> OffsetAt(partition.paging.after)]
       /\ (pc = "get_loop" /\ (pc' = "get_loop" \/ err' = "KeyError")) =>
              /\ request'.cursors =
                    <<IF partition.paging.present
                      THEN [type |-> PyStr("after"), value |-> partition.paging.after]
                      ELSE [type |-> PyStr("offset"), value |-> partition.offset.value]>>
              /\ request'.body = <<>>
              /\ ~request'.after.present]_vars

C20_Witness ==
    /\ method = "GET"
    /\ fetches >= 3
    /\ Len(request.cursors) = 1
    /\ request.cursors[1].type = PyStr("offset")
    /\ request.cursors[1].value.n > 0

====
